---- MODULE Spec2Model ----
(***************************************************************************)
(* Model of QueueDrainer (src/src/util/queue-drainer.ts): one drain loop   *)
(* that samples an injected remaining-time function, polls an SQS queue,   *)
(* hands every message of the batch to a handler in order, and issues one  *)
(* deleteMessageBatch request for the batch; and of the API Gateway        *)
(* authorizer (src/unnamed/part_000).                                      *)
(*                                                                         *)
(* The SQS client, the handler, the time source, the JWKS endpoint and the *)
(* key store are the environment: every await of the code is a pair of     *)
(* steps, the call and its resolution or rejection, and the environment    *)
(* picks the outcome.                                                      *)
(***************************************************************************)
EXTENDS Integers, Sequences, FiniteSets, TLC

\* ---------------------------------------------------------------- bounds
\* messages initially on the queue
NumMsgs == 10
\* poll cycles one invocation of start() may begin before the time source
\* is made to report an expired budget
MaxCycles == 2
\* invocations of start() on one queue, and the messages on that queue, in
\* the specification that calls start() again
MaxInvocations == 2
RestartMsgs == 2
\* invocations of the authorizer in one process
NumReqs == 2

\* ------------------------------------------------------ program constants
\* while (this.getRemainingTime() > 3000)
Margin == 3000
\* poll(numMessages: number = 10)
DefaultNumMessages == 10

\* values the injected getRemainingTime() may report
TimeValues == {0, 2000, 3000, 6000, 10000}

\* a Message without ReceiptHandle (the field is optional in SQS.Types.Message)
NoHandle == 0

MessageIds == 1..NumMsgs

\* the message the transport may deliver without ReceiptHandle (0: none)
NoHandleChoices == {0, 2}

Reqs == 1..NumReqs

VARIABLES
  pc,                     \* position of start(): idle, polling, process, handling, deleting, done, raised
  error,                  \* the error start() rejected with: none, poll, handler, delete
  processedMessageCount,  \* local of start()
  pollCount,              \* local of start()
  messages,               \* local of start(): the batch of the current iteration
  i,                      \* loop index of processMessages
  samples,                \* values getRemainingTime() returned to this invocation, in order
  batches,                \* batches poll() returned to this invocation, in order
  calls,                  \* per cycle, the messages handleMessage was invoked with, in order
  completed,              \* per cycle, the messages whose handleMessage promise resolved, in order
  rejected,               \* per cycle, the messages whose handleMessage promise rejected, in order
  inFlight,               \* handler invocations started and not yet settled
  deleteReqs,             \* deleteMessageBatch requests issued: [cycle, Entries]
  polls,                  \* receiveMessage requests issued by this invocation
  queue,                  \* the SQS queue: MessageId -> visible, inflight or deleted
  noHandleId,             \* the message (0: none) the transport delivers without ReceiptHandle
  remaining,              \* what getRemainingTime() would return now
  deleteResults,          \* deleteMessageBatch responses received: [cycle, Failed]
  pollFailures,           \* receiveMessage requests of this invocation that rejected
  invocation,             \* the number of the current invocation of start()
  handledBefore,          \* ids of the messages handled by earlier invocations
  event,                  \* authorizer: per invocation, the event it was called with
  apc,                    \* authorizer: per invocation, its position
  cbCalls,                \* authorizer: per invocation, the decisions passed to its callback
  cachedJwts,             \* authorizer: the promise cached by getJwks
  fetches,                \* authorizer: fetches of the JWKS document issued
  verifyQueue             \* authorizer: invocations whose jwt.verify callback is queued

drainVars == <<pc, error, processedMessageCount, pollCount, messages, i, samples,
               batches, calls, completed, rejected, inFlight, deleteReqs, polls, queue,
               noHandleId, remaining, deleteResults, pollFailures, invocation,
               handledBefore>>

authVars == <<event, apc, cbCalls, cachedJwts, fetches, verifyQueue>>

vars == <<drainVars, authVars>>

\* ------------------------------------------------------------- helpers
Min(a, b) == IF a < b THEN a ELSE b

RECURSIVE SeqOfSet(_)
\* the elements of a set of integers in ascending order
SeqOfSet(S) ==
  IF S = {} THEN <<>>
  ELSE LET m == CHOOSE x \in S : \A y \in S : x <= y
       IN <<m>> \o SeqOfSet(S \ {m})

\* the elements of a set with at most one element, as a sequence
SeqOfKeys(S) == IF S = {} THEN <<>> ELSE <<CHOOSE k \in S : TRUE>>

Visible == {id \in MessageIds : queue[id] = "visible"}

\* the receipt handle of the delivery of message id by the recv-th receiveMessage
HandleOf(recv, id) == recv * (NumMsgs + 1) + id

\* the Message the transport delivers for id in the recv-th receiveMessage
Delivery(recv, id) ==
  [MessageId |-> id,
   ReceiptHandle |-> IF id = noHandleId THEN NoHandle ELSE HandleOf(recv, id)]

\* the number of the current receiveMessage among all those made on the queue
RecvSeq == (invocation - 1) * (MaxCycles + 1) + polls

\* ------------------------------------------------- the code of QueueDrainer
\* variants of the code below, each a slip the properties must tell from the code
BudgetOkGe(t) == t >= Margin
BudgetOkNoMargin(t) == t > 0
BudgetOkInverted(t) == t <= Margin
EntriesSkipFirst(msgs) ==
  [j \in 1..(Len(msgs) - 1) |-> [Id |-> msgs[j + 1].MessageId,
                                 ReceiptHandle |-> msgs[j + 1].ReceiptHandle]]
HasNextSkipLast(idx, msgs) == idx + 1 < Len(msgs)
NextIndexSkip(idx) == idx + 2
HandlerErrorSwallowed == TRUE
PollErrorRetried == TRUE
DeleteResponseInspected == TRUE
IssuesDeleteNonEmpty(msgs) == Len(msgs) > 0
SamplesMidIteration == TRUE
CountersKept(previous) == previous

\* start(): while (this.getRemainingTime() > 3000)
BudgetOk(t) == t > Margin

\* start(): let processedMessageCount = 0; let pollCount = 0 are locals of the
\* call, whatever an earlier call left
InitialCount(previous) == 0

\* start(): getRemainingTime() is called in the while condition and nowhere else
SampledInIteration == FALSE

\* poll(): the request handed to sqs.receiveMessage
ReceiveRequest(numMessages) == [MaxNumberOfMessages |-> numMessages]

\* poll(): return response.Messages || []
PollResult(response) ==
  IF response.hasMessages THEN response.Messages ELSE <<>>

\* poll(), start(): await this.sqs.receiveMessage(...).promise() stands in no try block
PollErrorCaught == FALSE

\* deleteMessages(): ({ MessageId, ReceiptHandle }) => ({ Id: MessageId, ReceiptHandle })
Entry(m) == [Id |-> m.MessageId, ReceiptHandle |-> m.ReceiptHandle]

\* deleteMessages(): const Entries = messages.map(...)
Entries(msgs) == [j \in 1..Len(msgs) |-> Entry(msgs[j])]

\* processMessages(): the loop condition i < messages.length
HasNext(idx, msgs) == idx < Len(msgs)

\* processMessages(): const message = messages[i]  (i counts from 0)
CurrentMessage(idx, msgs) == msgs[idx + 1]

\* processMessages(): i++
NextIndex(idx) == idx + 1

\* processMessages(): await this.handleMessage(message) stands in no try block
HandlerErrorCaught == FALSE

\* start(): await this.deleteMessages(messages) is called for every batch, empty or not
IssuesDelete(msgs) == TRUE

\* deleteMessages(): await this.sqs.deleteMessageBatch(...).promise() stands in no try block
DeleteErrorCaught == FALSE

\* deleteMessages(): the response of deleteMessageBatch (Successful, Failed) is discarded
DeleteResponseChecked == FALSE

\* start(): processedMessageCount += messages.length
AddProcessed(count, msgs) == count + Len(msgs)

\* start(): pollCount++
CountCycle(count, msgs) == count + 1

\* ------------------------------------------------------------ the transport
\* the response to a receiveMessage request: the n visible messages with the
\* lowest ids; SQS omits Messages when it has nothing to deliver
Response(request, n, hasMessages) ==
  [hasMessages |-> hasMessages,
   Messages |-> [j \in 1..n |-> Delivery(RecvSeq, SeqOfSet(Visible)[j])]]

\* the positions of a deleteMessageBatch request that carry no receipt handle:
\* the transport cannot delete them
Unusable(entries) == {k \in 1..Len(entries) : entries[k].ReceiptHandle = NoHandle}

\* the sets of positions the transport may report as Failed in its response
FailedChoices(entries) ==
  {Unusable(entries), Unusable(entries) \cup (1..Min(1, Len(entries))), 1..Len(entries)}

\* the messages a deleteMessageBatch request removes: SQS deletes by receipt
\* handle, and rejects an entry that carries none
Removed(entries) ==
  {entries[j].ReceiptHandle % (NumMsgs + 1) :
     j \in {k \in 1..Len(entries) : entries[k].ReceiptHandle # NoHandle}}

\* the messages removed when the positions in failed are reported as Failed
RemovedExcept(entries, failed) ==
  Removed([j \in 1..Len(entries) |->
             IF j \in failed THEN [entries[j] EXCEPT !.ReceiptHandle = NoHandle]
                             ELSE entries[j]])

\* --------------------------------------------------- the authorizer's inputs
\* the names under which a request may carry its credential
HeaderNames == {"Authorization", "authorization", "X-Api-Version"}

\* the values of that header: not a string at all, or a string given by its
\* words (the parts between single spaces; the empty string has none)
HeaderValues ==
  {[isString |-> FALSE, words |-> <<>>],
   [isString |-> TRUE, words |-> <<>>],
   [isString |-> TRUE, words |-> <<"Bearer">>],
   [isString |-> TRUE, words |-> <<"Bearer", "jwt-good", "x">>],
   [isString |-> TRUE, words |-> <<"Basic", "k1:s1">>],
   [isString |-> TRUE, words |-> <<"Bearer", "jwt-good">>],
   [isString |-> TRUE, words |-> <<"BEARER", "jwt-bad">>],
   [isString |-> TRUE, words |-> <<"api-key", "k1:s1">>],
   [isString |-> TRUE, words |-> <<"Api-Key", "k1:s2">>],
   [isString |-> TRUE, words |-> <<"api-key", "k2:s1">>]}

\* an invocation that has not happened yet
NoEvent == [name |-> "", value |-> [isString |-> FALSE, words |-> <<>>]]

\* the key store behind ApiKeyCrud: the keys it holds
StoredKeys == {[id |-> "k1", secret |-> "s1", user |-> "u1", scopes |-> <<"read", "write">>]}

\* what the JWKS endpoint may answer: a status and the number of keys in the document
JwksResponses ==
  {[status |-> 200, keys |-> 1], [status |-> 200, keys |-> 0], [status |-> 500, keys |-> 0]}


\* ------------------------------------------------------------------ actions
\* the authorizer before any invocation
AuthIdle ==
  /\ event = [r \in Reqs |-> NoEvent]
  /\ apc = [r \in Reqs |-> "idle"]
  /\ cbCalls = [r \in Reqs |-> <<>>]
  /\ cachedJwts = [state |-> "unset", keys |-> 0, error |-> "none"]
  /\ fetches = 0
  /\ verifyQueue = {}

\* a drainer constructed on a queue, start() not yet called
DrainIdle ==
  /\ pc = "idle"
  /\ error = "none"
  /\ processedMessageCount = 0
  /\ pollCount = 0
  /\ messages = <<>>
  /\ i = 0
  /\ samples = <<>>
  /\ batches = <<>>
  /\ calls = <<>>
  /\ completed = <<>>
  /\ rejected = <<>>
  /\ inFlight = {}
  /\ deleteReqs = <<>>
  /\ polls = 0
  /\ remaining \in TimeValues
  /\ deleteResults = <<>>
  /\ pollFailures = 0
  /\ invocation = 1
  /\ handledBefore = {}

Init ==
  /\ DrainIdle
  /\ queue = [id \in MessageIds |-> "visible"]
  /\ noHandleId \in NoHandleChoices
  /\ AuthIdle

\* start() is called: let processedMessageCount = 0; let pollCount = 0
Start ==
  /\ pc = "idle"
  /\ processedMessageCount' = InitialCount(processedMessageCount)
  /\ pollCount' = InitialCount(pollCount)
  /\ pc' = "check"
  /\ UNCHANGED <<rejected, error, messages, i, samples, batches, calls, completed,
                 inFlight, deleteReqs, polls, queue, noHandleId, remaining,
                 deleteResults, pollFailures, invocation, handledBefore>>
  /\ UNCHANGED authVars

\* the while condition: one sample of getRemainingTime(); above the margin the
\* iteration begins and this.poll() issues receiveMessage, otherwise the loop ends
CheckBudget ==
  /\ pc = "check"
  /\ \E t \in {remaining} :
       /\ BudgetOk(t) => polls < MaxCycles
       /\ samples' = Append(samples, t)
       /\ IF BudgetOk(t)
            THEN /\ pc' = "polling"
                 /\ polls' = polls + 1
            ELSE /\ pc' = "done"
                 /\ polls' = polls
  /\ UNCHANGED <<rejected, error, processedMessageCount, pollCount, messages, i, batches,
                 calls, completed, inFlight, deleteReqs, queue, noHandleId, remaining,
                 deleteResults, pollFailures, invocation, handledBefore>>
  /\ UNCHANGED authVars

\* the host's clock runs while start() runs: the remaining time only decreases
TimePasses ==
  /\ pc \in {"check", "polling", "handling", "deleting"}
  /\ \E t \in TimeValues :
       /\ t < remaining
       /\ remaining' = t
  /\ UNCHANGED <<pc, error, processedMessageCount, pollCount, messages, i, samples,
                 batches, calls, completed, rejected, inFlight, deleteReqs, polls,
                 queue, noHandleId, deleteResults, pollFailures, invocation,
                 handledBefore>>
  /\ UNCHANGED authVars

\* receiveMessage resolves; poll() returns the batch and processMessages begins
PollResolve ==
  /\ pc = "polling"
  /\ LET request == ReceiveRequest(DefaultNumMessages) IN
     \E n \in 0..Min(request.MaxNumberOfMessages, Cardinality(Visible)) :
     \E hasMessages \in {TRUE, n > 0} :
       LET response == Response(request, n, hasMessages)
           batch == PollResult(response)
       IN /\ messages' = batch
          /\ batches' = Append(batches, batch)
          /\ queue' = [id \in MessageIds |->
                         IF \E j \in 1..n : response.Messages[j].MessageId = id
                           THEN "inflight" ELSE queue[id]]
  /\ i' = 0
  /\ calls' = Append(calls, <<>>)
  /\ completed' = Append(completed, <<>>)
  /\ rejected' = Append(rejected, <<>>)
  /\ pc' = "process"
  /\ UNCHANGED <<error, processedMessageCount, pollCount, samples, inFlight,
                 deleteReqs, polls, noHandleId, remaining, deleteResults,
                 pollFailures, invocation, handledBefore>>
  /\ UNCHANGED authVars

\* receiveMessage rejects: the await in poll() and the one in start() rethrow
PollReject ==
  /\ pc = "polling"
  /\ pollFailures' = pollFailures + 1
  /\ IF PollErrorCaught
       THEN /\ pc' = "check"
            /\ error' = error
       ELSE /\ pc' = "raised"
            /\ error' = "poll"
  /\ UNCHANGED <<rejected, processedMessageCount, pollCount, messages, i, samples, batches,
                 calls, completed, inFlight, deleteReqs, polls, queue, noHandleId,
                 remaining, deleteResults, invocation, handledBefore>>
  /\ UNCHANGED authVars

\* processMessages(): the loop condition holds and handleMessage(messages[i]) is called
HandleCall ==
  /\ pc = "process"
  /\ HasNext(i, messages)
  /\ IF SampledInIteration /\ ~BudgetOk(remaining)
       THEN /\ samples' = Append(samples, remaining)
            /\ pc' = "done"
            /\ UNCHANGED <<calls, inFlight>>
       ELSE /\ LET message == CurrentMessage(i, messages) IN
                 /\ calls' = [calls EXCEPT ![polls] = Append(@, message)]
                 /\ inFlight' = inFlight \cup {message}
            /\ pc' = "handling"
            /\ samples' = samples
  /\ UNCHANGED <<rejected, error, processedMessageCount, pollCount, messages, i,
                 batches, completed, deleteReqs, polls, queue, noHandleId, remaining,
                 deleteResults, pollFailures, invocation, handledBefore>>
  /\ UNCHANGED authVars

\* the handler's promise resolves: the loop steps to the next message
HandleResolve ==
  /\ pc = "handling"
  /\ completed' = [completed EXCEPT ![polls] = Append(@, CurrentMessage(i, messages))]
  /\ inFlight' = inFlight \ {CurrentMessage(i, messages)}
  /\ i' = NextIndex(i)
  /\ pc' = "process"
  /\ UNCHANGED <<rejected, error, processedMessageCount, pollCount, messages, samples,
                 batches, calls, deleteReqs, polls, queue, noHandleId, remaining,
                 deleteResults, pollFailures, invocation, handledBefore>>
  /\ UNCHANGED authVars

\* the handler's promise rejects: processMessages and start() rethrow
HandleReject ==
  /\ pc = "handling"
  /\ rejected' = [rejected EXCEPT ![polls] = Append(@, CurrentMessage(i, messages))]
  /\ inFlight' = inFlight \ {CurrentMessage(i, messages)}
  /\ IF HandlerErrorCaught
       THEN /\ i' = NextIndex(i)
            /\ pc' = "process"
            /\ error' = error
       ELSE /\ i' = i
            /\ pc' = "raised"
            /\ error' = "handler"
  /\ UNCHANGED <<processedMessageCount, pollCount, messages, samples, batches,
                 calls, completed, deleteReqs, polls, queue, noHandleId, remaining,
                 deleteResults, pollFailures, invocation, handledBefore>>
  /\ UNCHANGED authVars

\* the end of an iteration: the counters advance and the loop re-checks the budget
EndCycle ==
  /\ processedMessageCount' = AddProcessed(processedMessageCount, messages)
  /\ pollCount' = CountCycle(pollCount, messages)
  /\ pc' = "check"

\* processMessages returned; deleteMessages builds Entries and issues the one
\* deleteMessageBatch request
DeleteCall ==
  /\ pc = "process"
  /\ ~HasNext(i, messages)
  /\ IF IssuesDelete(messages)
       THEN /\ deleteReqs' = Append(deleteReqs,
                                    [cycle |-> polls, Entries |-> Entries(messages)])
            /\ pc' = "deleting"
            /\ UNCHANGED <<processedMessageCount, pollCount>>
       ELSE /\ deleteReqs' = deleteReqs
            /\ EndCycle
  /\ UNCHANGED <<rejected, error, messages, i, samples,
                 batches, calls, completed, inFlight, polls, queue, noHandleId,
                 remaining, deleteResults, pollFailures, invocation, handledBefore>>
  /\ UNCHANGED authVars

\* deleteMessageBatch resolves: the transport removed the messages of the
\* entries it does not report as Failed; the code does not read the response
DeleteResolve ==
  /\ pc = "deleting"
  /\ \E failed \in FailedChoices(deleteReqs[Len(deleteReqs)].Entries) :
       /\ queue' = [id \in MessageIds |->
                      IF id \in RemovedExcept(deleteReqs[Len(deleteReqs)].Entries, failed)
                        THEN "deleted" ELSE queue[id]]
       /\ deleteResults' = Append(deleteResults, [cycle |-> polls, Failed |-> failed])
       /\ IF DeleteResponseChecked /\ failed # {}
            THEN /\ pc' = "raised"
                 /\ error' = "delete"
                 /\ UNCHANGED <<processedMessageCount, pollCount>>
            ELSE /\ EndCycle
                 /\ error' = error
  /\ UNCHANGED <<rejected, messages, i, samples, batches, calls, completed, inFlight,
                 deleteReqs, polls, noHandleId, remaining, pollFailures, invocation,
                 handledBefore>>
  /\ UNCHANGED authVars

\* deleteMessageBatch rejects (the call failed as a whole): nothing is removed
DeleteReject ==
  /\ pc = "deleting"
  /\ IF DeleteErrorCaught
       THEN /\ EndCycle
            /\ error' = error
       ELSE /\ pc' = "raised"
            /\ error' = "delete"
            /\ UNCHANGED <<processedMessageCount, pollCount>>
  /\ UNCHANGED <<rejected, messages, i, samples, batches, calls, completed, inFlight,
                 deleteReqs, polls, queue, noHandleId, remaining, deleteResults,
                 pollFailures, invocation, handledBefore>>
  /\ UNCHANGED authVars

\* the ids of the messages whose handler call resolved in this invocation
HandledNow ==
  UNION {{completed[c][j].MessageId : j \in 1..Len(completed[c])} :
           c \in 1..Len(completed)}

\* start() has ended and the host constructs a drainer and calls start() again,
\* with a new time budget; the visibility timeout of the messages received
\* and not deleted may have expired by then
Restart ==
  /\ pc \in {"done", "raised"}
  /\ invocation < MaxInvocations
  /\ invocation' = invocation + 1
  /\ handledBefore' = handledBefore \cup HandledNow
  /\ \E expired \in BOOLEAN :
       queue' = [id \in MessageIds |->
                   IF expired /\ queue[id] = "inflight" THEN "visible" ELSE queue[id]]
  /\ remaining' \in TimeValues
  /\ pc' = "idle"
  /\ error' = "none"
  /\ messages' = <<>>
  /\ i' = 0
  /\ samples' = <<>>
  /\ batches' = <<>>
  /\ calls' = <<>>
  /\ completed' = <<>>
  /\ rejected' = <<>>
  /\ inFlight' = {}
  /\ deleteReqs' = <<>>
  /\ deleteResults' = <<>>
  /\ polls' = 0
  /\ pollFailures' = 0
  /\ UNCHANGED <<processedMessageCount, pollCount, noHandleId>>
  /\ UNCHANGED authVars

Next ==
  \/ Start
  \/ CheckBudget
  \/ TimePasses
  \/ PollResolve
  \/ PollReject
  \/ HandleCall
  \/ HandleResolve
  \/ HandleReject
  \/ DeleteCall
  \/ DeleteResolve
  \/ DeleteReject

Spec == Init /\ [][Next]_vars

\* one invocation in which every poll, handler and delete call returns, each
\* pending step is eventually taken and the clock keeps running
NextLive ==
  \/ Start
  \/ CheckBudget
  \/ TimePasses
  \/ PollResolve
  \/ HandleCall
  \/ HandleResolve
  \/ DeleteCall
  \/ DeleteResolve

SpecLive ==
  /\ Init
  /\ [][NextLive]_vars
  /\ WF_vars(Start)
  /\ WF_vars(CheckBudget)
  /\ WF_vars(TimePasses)
  /\ WF_vars(PollResolve)
  /\ WF_vars(HandleCall)
  /\ WF_vars(HandleResolve)
  /\ WF_vars(DeleteCall)
  /\ WF_vars(DeleteResolve)

\* a queue holding RestartMsgs messages, drained by successive invocations
InitRestart ==
  /\ DrainIdle
  /\ queue = [id \in MessageIds |-> IF id <= RestartMsgs THEN "visible" ELSE "deleted"]
  /\ noHandleId = 0
  /\ AuthIdle

NextRestart ==
  \/ Next
  \/ Restart

SpecRestart == InitRestart /\ [][NextRestart]_vars

TypeOK ==
  /\ pc \in {"idle", "check", "polling", "process", "handling", "deleting", "done", "raised"}
  /\ error \in {"none", "poll", "handler", "delete"}
  /\ processedMessageCount \in Nat
  /\ pollCount \in 0..MaxCycles
  /\ i \in 0..Len(messages)
  /\ Len(samples) <= MaxCycles + 1
  /\ remaining \in TimeValues
  /\ invocation \in 1..MaxInvocations

\* ------------------------------------------------- the code of the authorizer
\* variants of the code below, each a slip the properties must tell from the code
CacheHitWhenResolved(cache) == cache.state = "resolved"
SecretMismatchIgnored(retrievedKey, secret) == FALSE

\* String.prototype.toLowerCase on the header names and authorization types in use
ToLowerCase(s) ==
  CASE s = "Authorization" -> "authorization"
    [] s = "X-Api-Version" -> "x-api-version"
    [] s = "Bearer" -> "bearer"
    [] s = "BEARER" -> "bearer"
    [] s = "Api-Key" -> "api-key"
    [] s = "Basic" -> "basic"
    [] OTHER -> s

\* token.split(':') on the tokens in use
SplitColon(token) ==
  CASE token = "k1:s1" -> <<"k1", "s1">>
    [] token = "k1:s2" -> <<"k1", "s2">>
    [] token = "k2:s1" -> <<"k2", "s1">>
    [] OTHER -> <<token>>

\* scopes.join(' ')
RECURSIVE JoinSpace(_)
JoinSpace(scopes) ==
  IF Len(scopes) = 0 THEN <<>>
  ELSE IF Len(scopes) = 1 THEN <<scopes[1]>>
  ELSE <<scopes[1], " ">> \o JoinSpace(Tail(scopes))

\* generatePolicy(result): result is null (no element) or { user, scope }
GeneratePolicy(result) ==
  LET policyDocument ==
        [Version |-> "2012-10-17",
         Statement |-> <<[Action |-> "execute-api:Invoke", Effect |-> "Allow",
                          Resource |-> "*"]>>]
  IN IF Len(result) > 0
       THEN [principalId |-> result[1].user,
             context |-> [user |-> result[1].user, scope |-> result[1].scope],
             policyDocument |-> policyDocument]
       ELSE [policyDocument |-> policyDocument]

\* unauthorized(): cb(null, generatePolicy(null))
Unauthorized == GeneratePolicy(<<>>)

\* authorized(user, scope): cb(null, generatePolicy({ user, scope }))
Authorized(user, scope) == GeneratePolicy(<<[user |-> user, scope |-> scope]>>)

\* getJwks(): if (cachedJwts), the cached promise is returned, whatever its state
CacheHit(cache) == cache.state # "unset"

\* getJwks(): if (response.status !== 200) throw
StatusOk(response) == response.status = 200

\* authorize(): the headers with lower-cased names, then headers.authorization
AuthorizationOf(ev) ==
  IF ToLowerCase(ev.name) = "authorization" THEN ev.value
  ELSE [isString |-> FALSE, words |-> <<>>]

\* authorize(): typeof authorization !== 'string' || authorization.length === 0
MissingHeader(authorization) ==
  ~authorization.isString \/ authorization.words = <<>>

\* authorize(): authSplit.length !== 2
BadFormat(authorization) == Len(authorization.words) # 2

\* authorize(): switch (type.toLowerCase())
AuthType(authorization) == ToLowerCase(authorization.words[1])

\* authorizeBearer(): jwt.verify(token, pem, { issuer, audience }, ...): the
\* decoded claims of a token that verifies, nothing for one that does not
Verify(token) ==
  IF token = "jwt-good" THEN <<[sub |-> "u7", scope |-> "read"]>> ELSE <<>>

\* authorizeBearer(): jwt.verify is reached when the promise resolved with a
\* document whose first key converts to a PEM
VerifyReached(cache) == cache.state = "resolved" /\ cache.keys > 0

\* authorizeBearer() once the awaited getJwks() promise has settled
BearerDecision(cache, token) ==
  IF cache.state = "rejected" THEN Unauthorized
  ELSE IF cache.keys = 0 THEN Unauthorized
  ELSE IF Len(Verify(token)) = 0 THEN Unauthorized
  ELSE Authorized(Verify(token)[1].sub, Verify(token)[1].scope)

\* crud.get(keyId): the stored key, or nothing
Lookup(keyId) == SeqOfKeys({k \in StoredKeys : k.id = keyId})

\* authorizeApiKey(): retrievedKey.secret !== secret
SecretMismatch(retrievedKey, secret) == retrievedKey.secret # secret

\* authorizeApiKey() once the awaited crud.get() promise has resolved
ApiKeyDecision(token) ==
  LET keyId == SplitColon(token)[1]
      secret == SplitColon(token)[2]
      retrievedKey == Lookup(keyId)
  IN IF Len(retrievedKey) = 0 THEN Unauthorized
     ELSE IF SecretMismatch(retrievedKey[1], secret) THEN Unauthorized
     ELSE Authorized(retrievedKey[1].user, JoinSpace(retrievedKey[1].scopes))

\* ------------------------------------------------- the authorizer's actions
\* authorize(event, context, cb) is called and runs to its first await
Invoke(r) ==
  /\ apc[r] = "idle"
  /\ \E name \in HeaderNames, value \in HeaderValues :
       LET ev == [name |-> name, value |-> value]
           authorization == AuthorizationOf(ev)
       IN /\ event' = [event EXCEPT ![r] = ev]
          /\ IF MissingHeader(authorization) \/ BadFormat(authorization)
               THEN /\ cbCalls' = [cbCalls EXCEPT ![r] = Append(@, Unauthorized)]
                    /\ apc' = [apc EXCEPT ![r] = "returned"]
                    /\ UNCHANGED <<cachedJwts, fetches, verifyQueue>>
             ELSE IF AuthType(authorization) = "bearer"
               THEN /\ apc' = [apc EXCEPT ![r] = "awaitJwks"]
                    /\ IF CacheHit(cachedJwts)
                         THEN UNCHANGED <<cachedJwts, fetches>>
                         ELSE /\ cachedJwts' = [state |-> "pending", keys |-> 0, error |-> "none"]
                              /\ fetches' = fetches + 1
                    /\ UNCHANGED <<cbCalls, verifyQueue>>
             ELSE IF AuthType(authorization) = "api-key"
               THEN /\ apc' = [apc EXCEPT ![r] = "awaitKey"]
                    /\ UNCHANGED <<cbCalls, cachedJwts, fetches, verifyQueue>>
             ELSE /\ cbCalls' = [cbCalls EXCEPT ![r] = Append(@, Unauthorized)]
                  /\ apc' = [apc EXCEPT ![r] = "returned"]
                  /\ UNCHANGED <<cachedJwts, fetches, verifyQueue>>
  /\ UNCHANGED drainVars

\* the fetch of the JWKS document answers: the cached promise resolves with
\* the document, or rejects on a status other than 200
FetchAnswers ==
  /\ cachedJwts.state = "pending"
  /\ \E response \in JwksResponses :
       cachedJwts' = IF StatusOk(response)
                       THEN [state |-> "resolved", keys |-> response.keys, error |-> "none"]
                       ELSE [state |-> "rejected", keys |-> 0, error |-> "status"]
  /\ UNCHANGED <<event, apc, cbCalls, fetches, verifyQueue>>
  /\ UNCHANGED drainVars

\* the fetch fails on the network: the cached promise rejects
FetchFails ==
  /\ cachedJwts.state = "pending"
  /\ cachedJwts' = [state |-> "rejected", keys |-> 0, error |-> "network"]
  /\ UNCHANGED <<event, apc, cbCalls, fetches, verifyQueue>>
  /\ UNCHANGED drainVars

\* authorizeBearer() resumes after await getJwks(): the catch block, or
\* jwt.verify, which calls back before it returns or, in the versions of the
\* library that defer it, on a later tick, after the promise of authorize()
\* has resolved
BearerResumes(r) ==
  /\ apc[r] = "awaitJwks"
  /\ cachedJwts.state \in {"resolved", "rejected"}
  /\ apc' = [apc EXCEPT ![r] = "returned"]
  /\ IF VerifyReached(cachedJwts)
       THEN \E deferred \in BOOLEAN :
              IF deferred
                THEN /\ verifyQueue' = verifyQueue \cup {r}
                     /\ UNCHANGED cbCalls
                ELSE /\ cbCalls' = [cbCalls EXCEPT ![r] =
                          Append(@, BearerDecision(cachedJwts, AuthorizationOf(event[r]).words[2]))]
                     /\ UNCHANGED verifyQueue
       ELSE /\ cbCalls' = [cbCalls EXCEPT ![r] =
                   Append(@, BearerDecision(cachedJwts, AuthorizationOf(event[r]).words[2]))]
            /\ UNCHANGED verifyQueue
  /\ UNCHANGED <<event, cachedJwts, fetches>>
  /\ UNCHANGED drainVars

\* the queued callback of jwt.verify runs: jwtCb answers through cb
VerifyCallsBack(r) ==
  /\ r \in verifyQueue
  /\ verifyQueue' = verifyQueue \ {r}
  /\ cbCalls' = [cbCalls EXCEPT ![r] =
                   Append(@, BearerDecision(cachedJwts, AuthorizationOf(event[r]).words[2]))]
  /\ UNCHANGED <<event, apc, cachedJwts, fetches>>
  /\ UNCHANGED drainVars

\* crud.get() resolves and authorizeApiKey() decides
KeyLookupResolves(r) ==
  /\ apc[r] = "awaitKey"
  /\ cbCalls' = [cbCalls EXCEPT ![r] =
                   Append(@, ApiKeyDecision(AuthorizationOf(event[r]).words[2]))]
  /\ apc' = [apc EXCEPT ![r] = "returned"]
  /\ UNCHANGED <<event, cachedJwts, fetches, verifyQueue>>
  /\ UNCHANGED drainVars

\* crud.get() rejects: authorizeApiKey() has no try block, the promise of
\* authorize() rejects
KeyLookupRejects(r) ==
  /\ apc[r] = "awaitKey"
  /\ apc' = [apc EXCEPT ![r] = "threw"]
  /\ UNCHANGED <<event, cbCalls, cachedJwts, fetches, verifyQueue>>
  /\ UNCHANGED drainVars

InitAuth ==
  /\ DrainIdle
  /\ remaining = 10000
  /\ queue = [id \in MessageIds |-> "visible"]
  /\ noHandleId = 0
  /\ AuthIdle

NextAuth ==
  \/ \E r \in Reqs : Invoke(r)
  \/ FetchAnswers
  \/ FetchFails
  \/ \E r \in Reqs : BearerResumes(r)
  \/ \E r \in Reqs : VerifyCallsBack(r)
  \/ \E r \in Reqs : KeyLookupResolves(r)
  \/ \E r \in Reqs : KeyLookupRejects(r)

SpecAuth == InitAuth /\ [][NextAuth]_vars

\* ------------------------------------------------------------ properties
RECURSIVE SumLen(_)
\* the total number of messages in a sequence of batches
SumLen(bs) == IF bs = <<>> THEN 0 ELSE Len(bs[1]) + SumLen(Tail(bs))

RECURSIVE LeadingAbove(_)
\* the number of leading samples that exceed the margin
LeadingAbove(ts) ==
  IF ts = <<>> \/ ts[1] <= Margin THEN 0 ELSE 1 + LeadingAbove(Tail(ts))

IsPrefix(a, b) == Len(a) <= Len(b) /\ \A j \in 1..Len(a) : a[j] = b[j]

\* the cycles for which a deleteMessageBatch request was issued
DeleteCycles == {deleteReqs[q].cycle : q \in 1..Len(deleteReqs)}

\* C1: a deleteMessageBatch call that fails as a whole is swallowed: start()
\* never ends by raising the delete error.
C1_DeleteFailureSwallowed == ~(pc = "raised" /\ error = "delete")

\* C2: an empty batch is a normal cycle that never makes start() raise:
\* every step start() itself takes on it (a step that moves its position; the
\* clock running on is not one) calls the handler zero times and goes on to
\* the delete step, and then completes the cycle: it is counted as one poll
\* cycle, no message is counted, and the loop is back at the budget check.
C2_EmptyBatchStep ==
  /\ (pc = "process" /\ messages = <<>> /\ pc' # pc) =>
       /\ pc' = "deleting"
       /\ calls' = calls
       /\ error' = "none"
  /\ (pc = "deleting" /\ messages = <<>> /\ pc' # pc) =>
       /\ pc' = "check"
       /\ pollCount' = pollCount + 1
       /\ processedMessageCount' = processedMessageCount
       /\ calls'[polls] = <<>>
       /\ error' = "none"
C2_EmptyBatchIsNormalCycle == [][C2_EmptyBatchStep]_vars

\* C3: when the handler rejected a message of a batch, no delete request is
\* ever issued for that batch, whatever the position of the message, and every
\* message of the batch is still on the queue.
C3_NoDeleteAfterHandlerFailure ==
  \A c \in 1..Len(rejected) :
    rejected[c] # <<>> =>
      /\ c \notin DeleteCycles
      /\ \A j \in 1..Len(batches[c]) : queue[batches[c][j].MessageId] = "inflight"

\* the handler failed on the 5th message of a full batch: four were handled
C3_Witness ==
  /\ pc = "raised"
  /\ error = "handler"
  /\ Len(messages) = DefaultNumMessages
  /\ Len(completed[polls]) = 4
  /\ rejected[polls] = <<messages[5]>>

\* C4: a handler failure on the k-th message stops the invocation: start()
\* has raised the handler's error, the failing batch is the last one polled,
\* exactly messages 1..k of it were handed to the handler, and the counters
\* stand where the earlier cycles left them.
C4_HandlerFailureStops ==
  \A c \in 1..Len(rejected) :
    rejected[c] # <<>> =>
      /\ pc = "raised"
      /\ error = "handler"
      /\ c = polls
      /\ c = Len(batches)
      /\ Len(rejected[c]) = 1
      /\ Len(calls[c]) = Len(completed[c]) + 1
      /\ IsPrefix(calls[c], batches[c])
      /\ rejected[c][1] = batches[c][Len(calls[c])]
      /\ pollCount = c - 1
      /\ processedMessageCount = SumLen(SubSeq(batches, 1, c - 1))

\* the handler failed on the 2nd of 3 messages in the second cycle
C4_Witness ==
  /\ pc = "raised"
  /\ polls = 2
  /\ Len(batches) = 2
  /\ Len(batches[1]) = 2
  /\ Len(batches[2]) = 3
  /\ Len(calls[2]) = 2
  /\ rejected[2] # <<>>
  /\ processedMessageCount = 2

\* C5: every delete request was issued after the handler completed for every
\* message of its batch: each entry names a message whose handler call had
\* resolved in that cycle, and no handler call was in flight or had failed.
C5_DeleteOnlyAfterHandled ==
  \A q \in 1..Len(deleteReqs) :
    LET c == deleteReqs[q].cycle
        es == deleteReqs[q].Entries
    IN /\ Len(completed[c]) = Len(batches[c])
       /\ rejected[c] = <<>>
       /\ \A j \in 1..Len(es) :
            \E k \in 1..Len(completed[c]) :
              /\ completed[c][k].MessageId = es[j].Id
              /\ completed[c][k].ReceiptHandle = es[j].ReceiptHandle
       /\ (pc = "deleting" /\ c = polls) => inFlight = {}

\* a delete request for a batch of three is in flight
C5_Witness ==
  /\ pc = "deleting"
  /\ Len(messages) = 3
  /\ Len(completed[polls]) = 3
  /\ Len(deleteReqs[Len(deleteReqs)].Entries) = 3

\* C6: when the first sample of getRemainingTime() is at most the margin
\* (3000 included), start() is Done after that one sample, having made no
\* poll, no handler call and no delete call, and has not raised.
C6_ExpiredBudgetNoWork ==
  (samples # <<>> /\ samples[1] <= Margin) =>
    /\ pc = "done"
    /\ error = "none"
    /\ Len(samples) = 1
    /\ polls = 0
    /\ batches = <<>>
    /\ calls = <<>>
    /\ deleteReqs = <<>>
    /\ pollCount = 0
    /\ processedMessageCount = 0

\* the first sample was exactly the margin
C6_Witness ==
  /\ pc = "done"
  /\ samples = <<Margin>>

\* C7: the time source is sampled once per iteration start and an iteration
\* begins iff the sample exceeds the margin: the polls issued are as many as
\* the leading samples above the margin, every sample but a final expired one
\* began a poll, and at Done the cycles counted equal the leading samples
\* above the margin.
C7_CyclesFollowSamples ==
  /\ polls = LeadingAbove(samples)
  /\ Len(samples) = polls + (IF pc = "done" THEN 1 ELSE 0)
  /\ pc = "done" => /\ pollCount = LeadingAbove(samples)
                    /\ samples[Len(samples)] <= Margin

\* the scenario of the specification: samples 10000, 6000, 2000
C7_Witness ==
  /\ pc = "done"
  /\ samples = <<10000, 6000, 2000>>
  /\ pollCount = 2
  /\ polls = 2

\* C8: the handler is called on the messages of a batch in the order the poll
\* returned them, one call at a time, each call settling before the next
\* begins; a batch whose calls all succeeded got exactly one call per message.
C8_SequentialInOrder ==
  /\ Cardinality(inFlight) <= 1
  /\ inFlight # {} => pc = "handling"
  /\ \A c \in 1..Len(batches) :
       /\ Len(batches[c]) <= DefaultNumMessages
       /\ IsPrefix(calls[c], batches[c])
       /\ IsPrefix(completed[c], calls[c])
       /\ Len(calls[c]) - Len(completed[c]) - Len(rejected[c]) =
            (IF c = polls /\ pc = "handling" THEN 1 ELSE 0)
       /\ (rejected[c] = <<>> /\ (c < polls \/ pc \in {"deleting", "check", "done"})) =>
            calls[c] = batches[c]

\* a full batch of ten was handled, one message after the other
C8_Witness ==
  /\ pc = "deleting"
  /\ Len(messages) = DefaultNumMessages
  /\ calls[polls] = messages
  /\ completed[polls] = messages
  /\ \A j, k \in 1..Len(messages) : j # k => messages[j] # messages[k]

\* C9: the delete request of a cycle holds exactly one entry per message of
\* that cycle's batch, built from the message's id and receipt handle, in batch
\* order; it names no message of any other poll; and the requests are issued
\* in poll order, at most one per poll.
C9_DeleteRequestMatchesBatch ==
  /\ \A q \in 1..Len(deleteReqs) :
       LET c == deleteReqs[q].cycle
           es == deleteReqs[q].Entries
       IN /\ c \in 1..Len(batches)
          /\ Len(es) = Len(batches[c])
          /\ \A j \in 1..Len(es) :
               /\ es[j].Id = batches[c][j].MessageId
               /\ es[j].ReceiptHandle = batches[c][j].ReceiptHandle
          /\ \A d \in 1..Len(batches) : d # c =>
               \A j \in 1..Len(es), k \in 1..Len(batches[d]) :
                 /\ es[j].Id # batches[d][k].MessageId
                 /\ es[j].ReceiptHandle # NoHandle =>
                      es[j].ReceiptHandle # batches[d][k].ReceiptHandle
  /\ \A q1, q2 \in 1..Len(deleteReqs) :
       q1 < q2 => deleteReqs[q1].cycle < deleteReqs[q2].cycle

\* two successful cycles: the second request names the second batch only
C9_Witness ==
  /\ Len(deleteReqs) = 2
  /\ Len(batches) = 2
  /\ Len(batches[1]) = 2
  /\ Len(batches[2]) = 3
  /\ Len(deleteReqs[2].Entries) = 3
  /\ pc = "check"

\* C10: no entry without a receipt handle is ever sent to the transport in a
\* deleteMessageBatch request.
C10_NoEntryWithoutHandle ==
  \A q \in 1..Len(deleteReqs) :
    \A j \in 1..Len(deleteReqs[q].Entries) :
      deleteReqs[q].Entries[j].ReceiptHandle # NoHandle

\* the states in which an iteration of the loop is under way
MidIteration == pc \in {"polling", "process", "handling", "deleting"}

\* C11: there is no mid-iteration cancellation: getRemainingTime() is sampled
\* only by the while condition, an iteration under way never goes to Done
\* whatever the remaining time, the delete is issued only after the handler
\* completed for every message, and the loop returns to the budget check only
\* from the delete step.
C11_Step ==
  /\ samples' # samples => (pc = "check" /\ Len(samples') = Len(samples) + 1)
  /\ MidIteration => pc' # "done"
  /\ (MidIteration /\ pc' = "deleting" /\ pc # "deleting") =>
       /\ pc = "process"
       /\ completed[polls] = batches[polls]
  /\ (MidIteration /\ pc' = "check") =>
       /\ pc = "deleting"
       /\ deleteReqs[Len(deleteReqs)].cycle = polls
C11_NoMidIterationCancel == [][C11_Step]_vars

\* the budget ran out to 0 before the second handler call of a batch, and the
\* call was made all the same
C11_Witness ==
  /\ pc = "handling"
  /\ remaining = 0
  /\ i = 1
  /\ Len(calls[polls]) = 2
  /\ samples[Len(samples)] > Margin

\* the messages the queue held at first
OnQueueAtFirst == {id \in MessageIds : id <= RestartMsgs}

\* C12: at-least-once across invocations: a message leaves the queue only
\* after a handler call for it resolved, in this invocation or an earlier one,
\* and every message of a polled batch is handed to the handler when the loop
\* reaches it, whether or not an earlier invocation handled it already.
C12_AtLeastOnce ==
  /\ \A id \in OnQueueAtFirst :
       queue[id] = "deleted" => id \in handledBefore \cup HandledNow
  /\ \A c \in 1..Len(batches) :
       /\ Len(calls[c]) <= Len(batches[c])
       /\ \A j \in 1..Len(calls[c]) : calls[c][j] = batches[c][j]
       /\ (rejected[c] = <<>> /\ (c < polls \/ pc \in {"deleting", "check", "done"})) =>
            Len(calls[c]) = Len(batches[c])

\* a message handled by the first invocation was handled again by the second
C12_Witness ==
  /\ invocation = 2
  /\ handledBefore \cap HandledNow # {}

\* C13: a deleteMessageBatch response that reports failed entries does not
\* stop the loop: every response received was followed by the counters
\* advancing and the next budget check, a delete error is raised only by a
\* request that got no response, no later request names a failed message, and
\* the failed messages are still on the queue.
C13_PartialFailureIgnored ==
  /\ pollCount = Len(deleteResults)
  /\ (pc = "raised" /\ error = "delete") => Len(deleteResults) < Len(deleteReqs)
  /\ \A r \in 1..Len(deleteResults) :
       LET c == deleteResults[r].cycle IN
       /\ Cardinality({q \in 1..Len(deleteReqs) : deleteReqs[q].cycle = c}) = 1
       /\ \A j \in deleteResults[r].Failed :
            /\ queue[batches[c][j].MessageId] = "inflight"
            /\ \A q \in 1..Len(deleteReqs) :
                 deleteReqs[q].cycle # c =>
                   \A k \in 1..Len(deleteReqs[q].Entries) :
                     deleteReqs[q].Entries[k].Id # batches[c][j].MessageId

\* one of three entries failed in the first cycle and the second poll is under way
C13_Witness ==
  /\ pc = "polling"
  /\ polls = 2
  /\ Len(batches[1]) = 3
  /\ deleteResults[1].Failed = {1}
  /\ noHandleId = 0

\* C14: a receiveMessage rejection ends the invocation: start() has raised the
\* poll error, the failing poll was made once, and no batch, handler call,
\* delete request or later poll follows it.
C14_PollErrorStops ==
  pollFailures > 0 =>
    /\ pc = "raised"
    /\ error = "poll"
    /\ pollFailures = 1
    /\ Len(batches) = polls - 1
    /\ Len(calls) = polls - 1
    /\ Len(samples) = polls
    /\ \A q \in 1..Len(deleteReqs) : deleteReqs[q].cycle < polls
    /\ pollCount = polls - 1

\* the second poll failed after a first cycle of two messages
C14_Witness ==
  /\ pc = "raised"
  /\ error = "poll"
  /\ polls = 2
  /\ Len(batches[1]) = 2
  /\ Len(deleteReqs) = 1

\* C15: every cycle whose processing completed issued exactly one
\* deleteMessageBatch request, holding as many entries as the batch has
\* messages (zero for an empty batch), and no cycle issued more than one.
C15_OneDeleteRequestPerCycle ==
  /\ \A q1, q2 \in 1..Len(deleteReqs) :
       q1 # q2 => deleteReqs[q1].cycle # deleteReqs[q2].cycle
  /\ \A c \in 1..Len(batches) :
       (/\ completed[c] = batches[c]
        /\ \/ c < polls
           \/ pc \in {"deleting", "check", "done"}
           \/ (pc = "raised" /\ error = "delete")) =>
         \E q \in 1..Len(deleteReqs) :
           /\ deleteReqs[q].cycle = c
           /\ Len(deleteReqs[q].Entries) = Len(batches[c])
           /\ Len(batches[c]) <= DefaultNumMessages

\* an empty batch was followed by one request with zero entries
C15_Witness ==
  /\ pc = "check"
  /\ polls = 1
  /\ batches[1] = <<>>
  /\ Len(deleteReqs) = 1
  /\ deleteReqs[1].Entries = <<>>

RECURSIVE CountedMessages(_)
\* the total size of the batches of the cycles whose delete step returned
CountedMessages(results) ==
  IF results = <<>> THEN 0
  ELSE Len(batches[results[1].cycle]) + CountedMessages(Tail(results))

\* C16: in every invocation of start(), from its first budget check on,
\* pollCount is the number of cycles of this invocation whose delete step
\* returned and processedMessageCount the number of messages in their batches:
\* both are zero when the invocation begins, whatever earlier invocations did,
\* and a cycle that raised is not counted.
C16_CountersPerInvocation ==
  pc # "idle" =>
    /\ pollCount = Len(deleteResults)
    /\ processedMessageCount = CountedMessages(deleteResults)
    /\ (polls = 0 => (pollCount = 0 /\ processedMessageCount = 0))

\* a second invocation begins after a first that handled messages
C16_Witness ==
  /\ invocation = 2
  /\ pc = "check"
  /\ polls = 0
  /\ handledBefore # {}
  /\ pollCount = 0
  /\ processedMessageCount = 0

\* C17: with a remaining time that only decreases and every poll, handler and
\* delete call returning, start() eventually reaches Done, and once Done it
\* makes no further poll, handler call or delete request.
C17_ReachesDone ==
  /\ <>(pc = "done")
  /\ [][pc = "done" =>
          (pc' = "done" /\ UNCHANGED <<polls, calls, deleteReqs, samples>>)]_vars

\* Done after two counted cycles
C17_Witness ==
  /\ pc = "done"
  /\ pollCount = 2
  /\ Len(deleteReqs) = 2

\* ------------------------------------------------------ authorizer claims
\* the decision grants an identity: it has the principalId and context keys
Grants(decision) == {"principalId", "context"} \subseteq DOMAIN decision

\* the decision grants nothing: it has only the policy document
Anonymous(decision) == DOMAIN decision = {"policyDocument"}

\* the request carried a bearer credential in a well-formed authorization header
IsBearerRequest(ev) ==
  /\ ev.name \in {"Authorization", "authorization"}
  /\ ev.value.isString
  /\ Len(ev.value.words) = 2
  /\ ev.value.words[1] \in {"Bearer", "BEARER", "bearer"}

\* the request carried an api-key credential in a well-formed authorization header
IsApiKeyRequest(ev) ==
  /\ ev.name \in {"Authorization", "authorization"}
  /\ ev.value.isString
  /\ Len(ev.value.words) = 2
  /\ ev.value.words[1] \in {"api-key", "Api-Key"}

\* the credential of the request is verified: a bearer token that verifies
\* against the first key of a fetched JWKS document, or the id and secret of a
\* stored key (k1 with secret s1)
Verified(ev, cache) ==
  \/ /\ IsBearerRequest(ev)
     /\ ev.value.words[2] = "jwt-good"
     /\ cache.state = "resolved"
     /\ cache.keys > 0
  \/ /\ IsApiKeyRequest(ev)
     /\ ev.value.words[2] = "k1:s1"
     /\ \E k \in StoredKeys : k.id = "k1" /\ k.secret = "s1"

\* C18: over any interleaving of bearer authorizations getJwks issues at most
\* one fetch: the cache is set exactly when the one fetch has been issued,
\* callers arriving while it is pending issue no second fetch, a rejected
\* fetch stays cached for good, and a bearer authorization that resumes on
\* the rejected promise is answered with an anonymous decision.
C18_Step ==
  /\ fetches' <= 1
  /\ (cachedJwts'.state # "unset") <=> (fetches' = 1)
  /\ cachedJwts.state = "rejected" => (cachedJwts' = cachedJwts /\ fetches' = fetches)
  /\ \A r \in Reqs :
       (/\ apc[r] = "awaitJwks"
        /\ apc'[r] = "returned"
        /\ cachedJwts.state = "rejected")
         => (Len(cbCalls'[r]) = 1 /\ Anonymous(cbCalls'[r][1]))

C18_SingleSharedFetch == [][C18_Step]_vars

\* two bearer authorizations were both answered from one failed fetch
C18_Witness ==
  \E r1 \in Reqs, r2 \in Reqs :
    /\ r1 # r2
    /\ IsBearerRequest(event[r1]) /\ IsBearerRequest(event[r2])
    /\ apc[r1] = "returned" /\ apc[r2] = "returned"
    /\ cachedJwts.state = "rejected"
    /\ fetches = 1
    /\ Anonymous(cbCalls[r1][1]) /\ Anonymous(cbCalls[r2][1])

\* C19: every invocation of authorize invokes its callback exactly once: never
\* twice, and once by the time the invocation has ended (it returned or its
\* promise rejected) with no callback of jwt.verify left queued.
C19_CallbackExactlyOnce ==
  \A r \in Reqs :
    /\ Len(cbCalls[r]) <= 1
    /\ (apc[r] \in {"returned", "threw"} /\ r \notin verifyQueue) => Len(cbCalls[r]) = 1

\* C20: a decision carries principalId and context (user, scope) if and only
\* if the credential was verified, and every decision carries a policy document
\* whose single statement allows execute-api:Invoke.
C20_GrantIffVerified ==
  \A r \in Reqs :
    \A n \in 1..Len(cbCalls[r]) :
      LET decision == cbCalls[r][n]
      IN /\ Grants(decision) <=> Verified(event[r], cachedJwts)
         /\ ~Grants(decision) => Anonymous(decision)
         /\ Grants(decision) =>
              /\ DOMAIN decision.context = {"user", "scope"}
              /\ decision.context.user = decision.principalId
         /\ Len(decision.policyDocument.Statement) = 1
         /\ decision.policyDocument.Statement[1].Effect = "Allow"
         /\ decision.policyDocument.Statement[1].Action = "execute-api:Invoke"

\* one api-key was granted an identity and another, with the wrong secret, was not
C20_Witness ==
  \E r1 \in Reqs, r2 \in Reqs :
    /\ IsApiKeyRequest(event[r1]) /\ event[r1].value.words[2] = "k1:s1"
    /\ Len(cbCalls[r1]) = 1 /\ Grants(cbCalls[r1][1])
    /\ cbCalls[r1][1].principalId = "u1"
    /\ IsApiKeyRequest(event[r2]) /\ event[r2].value.words[2] = "k1:s2"
    /\ Len(cbCalls[r2]) = 1 /\ Anonymous(cbCalls[r2][1])

====
